---- MODULE Spec2Model ----
(***************************************************************************)
(* Model of the ARED edge IOTA anchor service: the Merkle engine           *)
(* (app/crypto/merkle.py), the anchor workflow                             *)
(* (app/services/anchor_workflow.py), the anchor service and ledger client *)
(* (app/services/anchor_service.py, iota_client.py), the repository        *)
(* (app/db/repository.py), the reconciliation loop                         *)
(* (app/services/reconciliation.py) and the verify endpoint                *)
(* (app/api/v1/endpoints/anchors.py).                                      *)
(*                                                                         *)
(* Hashes are modelled as terms written in prefix form as sequences of     *)
(* naturals: an event hash is a one-element sequence <<a>> with a >= 2,    *)
(* SHA256(0x00 || d) is <<0>> \o d and SHA256(0x01 || l || r) is           *)
(* <<1>> \o l \o r.  Prefix form is uniquely readable, so the two hash     *)
(* functions are injective and have disjoint ranges (collision-free        *)
(* SHA-256 with domain separation).                                        *)
(*                                                                         *)
(* Nullable columns: 0 is NULL for ids and timestamps, "" for texts, the   *)
(* empty sequence for block ids, and the JSONB column merkle_proof is a    *)
(* set that is empty (NULL) or holds the one stored list.                  *)
(***************************************************************************)
EXTENDS Integers, Sequences, FiniteSets, Bags, TLC

\* ---------------------------------------------------------------- bounds
MaxRuns == 2        \* workflow runs started in one behaviour, overlapping
NumWorkers == 2     \* workflow runs that may be in flight together
SerialRuns == 3     \* workflow runs started one after the other
MaxScans == 1       \* reconciliation scans started in one behaviour
ScanRuns == 1       \* workflow runs started alongside reconciliation
ScanWorkers == 1    \* of them in flight together
MaxLeaves == 5      \* leaves of a tree built on its own
MaxPolls == 4        \* confirmation_timeout, in poll intervals
WindowRuns == 2
DailyRuns == 2
MaxBlocks == 2
HoldRuns == 2
MaxClock == 6       \* time units that pass in one behaviour

\* ------------------------------------------------------- Merkle engine
LEAF_PREFIX == 0
NODE_PREFIX == 1

compute_leaf_hash(data) == <<LEAF_PREFIX>> \o data

\* A parent hash that leaves the right child out of the hasher.
compute_parent_hash_left_only(left_hash, right_hash) ==
    <<NODE_PREFIX>> \o left_hash

compute_parent_hash(left_hash, right_hash) ==
    <<NODE_PREFIX>> \o left_hash \o right_hash

\* One pass over a level in which an unpaired last node is paired with
\* itself instead of being promoted.
NextLevel_duplicating(level) ==
    [k \in 1..((Len(level) + 1) \div 2) |->
        IF 2 * k <= Len(level)
        THEN compute_parent_hash(level[2 * k - 1], level[2 * k])
        ELSE compute_parent_hash(level[2 * k - 1], level[2 * k - 1])]

\* One pass of the while loop of _build_tree over a level (a sequence of
\* node hashes): adjacent nodes are paired, an unpaired last node is
\* promoted unchanged.
NextLevel(level) ==
    [k \in 1..((Len(level) + 1) \div 2) |->
        IF 2 * k <= Len(level)
        THEN compute_parent_hash(level[2 * k - 1], level[2 * k])
        ELSE level[2 * k - 1]]

RECURSIVE _build_tree(_)
_build_tree(leaf_nodes) ==
    IF Len(leaf_nodes) = 1
    THEN leaf_nodes[1]
    ELSE _build_tree(NextLevel(leaf_nodes))

\* The three construction modes.
Modes == { "from_leaves", "from_hashes", "from_raw_hashes" }

\* The guard without the test in from_raw_hashes.
EmptyInput_raw_unchecked(mode, input) ==
    mode # "from_raw_hashes" /\ Len(input) = 0

\* The guard "if not leaves" / "if not hashes" at the head of each
\* constructor: ValueError is raised when it holds.
EmptyInput(mode, input) == Len(input) = 0

\* The three constructors return the leaf hashes of the tree (past the
\* guard).
from_leaves(leaves) == [i \in 1..Len(leaves) |-> compute_leaf_hash(leaves[i])]

from_hashes(hashes) == [i \in 1..Len(hashes) |-> compute_leaf_hash(hashes[i])]

from_raw_hashes(hashes) == hashes

root_hash(tree) == _build_tree(tree)

\* The constructors with the input put in order first.
LeafNodes_sorted(mode, input) ==
    LET sorted == SortSeq(input, LAMBDA a, b : a[1] < b[1])
    IN CASE mode = "from_leaves" -> from_leaves(sorted)
         [] mode = "from_hashes" -> from_hashes(sorted)
         [] mode = "from_raw_hashes" -> from_raw_hashes(sorted)

\* The leaf hashes the constructor of a mode builds the tree from.
LeafNodes(mode, input) ==
    CASE mode = "from_leaves" -> from_leaves(input)
      [] mode = "from_hashes" -> from_hashes(input)
      [] mode = "from_raw_hashes" -> from_raw_hashes(input)

\* Inner while loop of get_proof over one level, from index i (0-based):
\* st = [cur, path, n] holds current_index, proof_path and len(next_level).
RECURSIVE ProofScanLevel(_, _, _)
ProofScanLevel(level, i, st) ==
    IF i >= Len(level)
    THEN st
    ELSE IF i + 1 < Len(level)
         THEN ProofScanLevel(level, i + 2,
                IF i = st.cur
                THEN [cur |-> st.n,
                      path |-> Append(st.path,
                                 [hash |-> level[i + 2], direction |-> "R"]),
                      n |-> st.n + 1]
                ELSE IF i + 1 = st.cur
                     THEN [cur |-> st.n,
                           path |-> Append(st.path,
                                      [hash |-> level[i + 1], direction |-> "L"]),
                           n |-> st.n + 1]
                     ELSE [st EXCEPT !.n = st.n + 1])
         ELSE ProofScanLevel(level, i + 1,
                IF i = st.cur
                THEN [st EXCEPT !.cur = st.n, !.n = st.n + 1]
                ELSE [st EXCEPT !.n = st.n + 1])

\* Outer while loop of get_proof.
RECURSIVE ProofLevels(_, _, _)
ProofLevels(level, cur, path) ==
    IF Len(level) <= 1
    THEN path
    ELSE LET st == ProofScanLevel(level, 0, [cur |-> cur, path |-> path, n |-> 0])
         IN ProofLevels(NextLevel(level), st.cur, st.path)

\* The bounds test of get_proof without its first half: a negative index
\* is not refused.
OutOfBounds_negative_unchecked(tree, leaf_index) ==
    leaf_index >= Len(tree)

\* The test that opens get_proof: IndexError is raised on it.
OutOfBounds(tree, leaf_index) ==
    leaf_index < 0 \/ leaf_index >= Len(tree)

\* get_proof(leaf_index) past the bounds test.  self._leaves[leaf_index]
\* is a Python list access: a negative index counts from the end.
get_proof(tree, leaf_index) ==
    [leaf_hash  |-> tree[(IF leaf_index < 0 THEN Len(tree) + leaf_index
                                            ELSE leaf_index) + 1],
     leaf_index |-> leaf_index,
     proof_path |-> ProofLevels(tree, leaf_index, <<>>),
     root_hash  |-> root_hash(tree),
     tree_size  |-> Len(tree)]

\* MerkleProof.to_compact: each element becomes the string "D:hash",
\* modelled as the pair <<D, hash>>.
to_compact(proof) ==
    [k \in 1..Len(proof.proof_path) |->
        <<proof.proof_path[k].direction, proof.proof_path[k].hash>>]

\* The parse of a compact path in verify_inclusion: split(":", 1).
ParseCompact(compact_path) ==
    [k \in 1..Len(compact_path) |->
        [hash |-> compact_path[k][2], direction |-> compact_path[k][1]]]

\* The fold with the direction of the path elements left unread: the
\* sibling is always taken to be on the right.
RECURSIVE FoldPath_direction_unread(_, _, _)
FoldPath_direction_unread(current_hash, proof_path, k) ==
    IF k > Len(proof_path)
    THEN current_hash
    ELSE FoldPath_direction_unread(
             compute_parent_hash(current_hash, proof_path[k].hash),
             proof_path, k + 1)

RECURSIVE FoldPath(_, _, _)
FoldPath(current_hash, proof_path, k) ==
    IF k > Len(proof_path)
    THEN current_hash
    ELSE FoldPath(IF proof_path[k].direction = "L"
                  THEN compute_parent_hash(proof_path[k].hash, current_hash)
                  ELSE compute_parent_hash(current_hash, proof_path[k].hash),
                  proof_path, k + 1)

verify_proof(proof) ==
    FoldPath(proof.leaf_hash, proof.proof_path, 1) = proof.root_hash

\* ------------------------------------------------------------ constants
max_retries == 3    \* ReconciliationService.__init__ default
retry_delay_base == 60      \* seconds, __init__ default
retry_delay_max == 3600     \* seconds, __init__ default
IOTA_RETRY_COUNT == 3       \* Settings default

NoId == 0           \* NULL uuid
NoBlock == <<>>     \* NULL block id
NoTime == 0         \* NULL timestamp
Stamp == 1          \* posted_at / confirmed_at holding a timestamp
NoError == ""       \* NULL text
NoDigest == <<>>    \* digest=None of an AnchorResult
Absent == 0 - 9     \* start_time=None / end_time=None: no timestamp is -9

\* timedelta(days=1): a day is two units of the model's time, so that the
\* two events of the event source fall on one day.
Day == 2

Workers == 1..NumWorkers

\* ------------------------------------------------ external event source
\* The indexed_events table in ORDER BY block_number, event_index order:
\* one event at time 0 and one at time 1.  It is read-only for the
\* service.
indexed_events ==
    << [event_hash |-> <<2>>, created_at |-> 0],
       [event_hash |-> <<3>>, created_at |-> 1] >>

\* The query of fetch_events_for_window: created_at in [start, end).
InWindow(ev, start_time, end_time) ==
    ev.created_at >= start_time /\ ev.created_at < end_time

fetch_events_for_window(start_time, end_time) ==
    SelectSeq(indexed_events, LAMBDA ev : InWindow(ev, start_time, end_time))

\* EventWindow.event_hashes
event_hashes(events) == [i \in 1..Len(events) |-> events[i].event_hash]

\* ------------------------------------------------------------ the state
VARIABLES
    anchors,            \* table anchors: a set of rows
    anchor_items,       \* table anchor_items: a bag of rows
    anchor_retry_log,   \* table anchor_retry_log: rows in insertion order
    ledger,             \* payloads of the blocks the ledger accepted: a bag
    clock,              \* datetime.utcnow() as read for created_at
    next_id,            \* supply of uuid4() values
    wf,                 \* per worker: the run_anchor_job call in flight
    outcome,            \* what the step just taken returned to a caller
    anchored,           \* history: the successes returned, as <<start, end, id>>
    hidden,             \* history: a swallowed lookup error hid an existing anchor
    runs,               \* workflow runs started
    rec,                \* the run_reconciliation call in flight
    scans,              \* reconciliation scans started
    merkle,             \* a Merkle tree built on its own, and its proof
    poll,               \* an IOTAClient.post_anchor call followed poll by poll
    settings            \* the configuration the process was started with

vars == << anchors, anchor_items, anchor_retry_log, ledger, clock,
           next_id, wf, outcome, anchored, hidden, runs, rec, scans,
           merkle, poll, settings >>

\* The state of the anchoring service, and the engines followed on
\* their own together with the configuration, which no handler writes.
serviceVars == << anchors, anchor_items, anchor_retry_log, ledger, clock,
                  next_id, wf, outcome, anchored, hidden, runs, rec, scans >>

engineVars == << merkle, poll, settings >>

storeVars == << anchors, anchor_items, anchor_retry_log >>

\* AnchorRecord (method, iota_network and explorer_url are carried along
\* with iota_block_id and are left out).
NoRecord ==
    [id |-> NoId, digest |-> NoDigest, start_time |-> 0, end_time |-> 0,
     item_count |-> 0, status |-> "pending", iota_block_id |-> NoBlock,
     created_at |-> NoTime, posted_at |-> NoTime, confirmed_at |-> NoTime,
     error_message |-> NoError]

\* A run_anchor_job call: its position, its window, the record built by
\* create_anchor and the loop index of _store_anchor_items; args holds the
\* arguments start_time and end_time as passed and last_anchor_time the
\* local variable of that name (Absent: None or never assigned).  Three
\* fields are history: first_id is the anchor id of a success returned
\* for the window before the run started (NoId: none), swallowed tells
\* that get_last_anchor_time caught a database error in this run, and
\* accepted is the id of the block the ledger accepted from this run
\* (NoBlock: none).
IdleJob ==
    [pc |-> "idle", start_time |-> 0, end_time |-> 0, record |-> NoRecord,
     pos |-> 0, first_id |-> NoId, args |-> << Absent, Absent >>,
     last_anchor_time |-> Absent, swallowed |-> FALSE, accepted |-> NoBlock]

\* A run_reconciliation call: its phase, the anchors listed and not yet
\* visited, and (history) the ids of the anchors it has submitted again.
IdleRec == [pc |-> "idle", queue |-> <<>>, resubmitted |-> {}]

\* Rows found in the store at start-up: none, or the anchor of the
\* window [0, 1) left in status pending (the schema default) without
\* its item, with no retries logged or with max_retries of them.
SeedId == 1
SeedDigest == <<2>>

SeedRow(st) ==
    [NoRecord EXCEPT !.id = SeedId, !.digest = SeedDigest, !.start_time = 0,
                     !.end_time = 1, !.item_count = 1, !.status = st,
                     !.created_at = 1]

SeedLog(n) == [k \in 1..n |-> [anchor_id |-> SeedId, created_at |-> Stamp]]

\* ----------------------------------------------------------- repository
RECURSIVE OrderByCreatedDesc(_)
OrderByCreatedDesc(rows) ==
    IF rows = {}
    THEN <<>>
    ELSE LET newest == CHOOSE a \in rows :
                          \A b \in rows : b.created_at <= a.created_at
         IN <<newest>> \o OrderByCreatedDesc(rows \ {newest})

Limit(seq, limit) == SubSeq(seq, 1, IF Len(seq) < limit THEN Len(seq) ELSE limit)

\* list_anchors(status, limit): ORDER BY created_at DESC LIMIT :limit;
\* status "" stands for status=None (no filter).
list_anchors(status, limit) ==
    Limit(OrderByCreatedDesc({a \in anchors : status = "" \/ a.status = status}),
          limit)

\* The unique constraint uq_anchors_digest_window.
SameWindow(a, b) ==
    /\ a.digest = b.digest
    /\ a.start_time = b.start_time
    /\ a.end_time = b.end_time

\* The INSERT of save_anchor without its ON CONFLICT clause and without
\* the unique constraint behind it.
save_anchor_plain_insert(rows, record) == rows \cup {record}

\* save_anchor: INSERT ... ON CONFLICT (digest, start_time, end_time)
\* DO UPDATE SET status, iota_block_id, error_message, posted_at,
\* confirmed_at = EXCLUDED.*; the conflicting row keeps its id.
save_anchor(rows, record) ==
    IF \E a \in rows : SameWindow(a, record)
    THEN { IF SameWindow(a, record)
           THEN [a EXCEPT !.status = record.status,
                          !.iota_block_id = record.iota_block_id,
                          !.error_message = record.error_message,
                          !.posted_at = record.posted_at,
                          !.confirmed_at = record.confirmed_at]
           ELSE a : a \in rows }
    ELSE rows \cup {record}

\* update_anchor_status without the column posted_at in its SET list.
update_anchor_status_block_only(rows, anchor_id, status, iota_block_id, error_message) ==
    { IF a.id # anchor_id
      THEN a
      ELSE [a EXCEPT
              !.status = status,
              !.iota_block_id =
                  IF status = "posted" /\ iota_block_id # NoBlock
                  THEN iota_block_id ELSE a.iota_block_id,
              !.confirmed_at =
                  IF status = "confirmed" THEN Stamp ELSE a.confirmed_at,
              !.error_message =
                  IF status = "failed" /\ error_message # NoError
                  THEN error_message ELSE a.error_message]
      : a \in rows }

\* update_anchor_status: UPDATE anchors SET ... WHERE id = :id.
update_anchor_status(rows, anchor_id, status, iota_block_id, error_message) ==
    { IF a.id # anchor_id
      THEN a
      ELSE [a EXCEPT
              !.status = status,
              !.iota_block_id =
                  IF status = "posted" /\ iota_block_id # NoBlock
                  THEN iota_block_id ELSE a.iota_block_id,
              !.posted_at =
                  IF status = "posted" /\ iota_block_id # NoBlock
                  THEN Stamp ELSE a.posted_at,
              !.confirmed_at =
                  IF status = "confirmed" THEN Stamp ELSE a.confirmed_at,
              !.error_message =
                  IF status = "failed" /\ error_message # NoError
                  THEN error_message ELSE a.error_message]
      : a \in rows }

\* The foreign key anchor_items.anchor_id -> anchors.id.
ForeignKeyHolds(rows, anchor_id) == \E a \in rows : a.id = anchor_id

\* save_anchor_item: the row inserted; an empty proof list is falsy and
\* is stored as NULL ("json.dumps(merkle_proof) if merkle_proof else None").
save_anchor_item(anchor_id, event_hash, position, merkle_proof) ==
    [anchor_id |-> anchor_id, event_hash |-> event_hash, position |-> position,
     merkle_proof |-> IF merkle_proof # <<>> THEN {merkle_proof} ELSE {}]

\* get_anchor: the rows with the id (at most one).
get_anchor(anchor_id) == { a \in anchors : a.id = anchor_id }

RECURSIVE OrderByPosition(_)
OrderByPosition(items) ==
    IF items = {}
    THEN <<>>
    ELSE LET first == CHOOSE it \in items :
                         \A o \in items : it.position <= o.position
         IN <<first>> \o OrderByPosition(items \ {first})

\* get_anchor_items: the distinct item rows of an anchor, ORDER BY
\* position_in_merkle.
get_anchor_items(anchor_id) ==
    OrderByPosition({ it \in BagToSet(anchor_items) : it.anchor_id = anchor_id })

\* SELECT COUNT(*) of the item rows of an anchor.
count_anchor_items(anchor_id) ==
    BagCardinality([it \in { r \in BagToSet(anchor_items) :
                               r.anchor_id = anchor_id }
                      |-> CopiesIn(it, anchor_items)])

\* get_anchor_item_by_hash: fetchone() may return any row that matches.
get_anchor_item_by_hash(anchor_id, event_hash) ==
    { it \in BagToSet(anchor_items) :
        it.anchor_id = anchor_id /\ it.event_hash = event_hash }

\* ------------------------------------------------- ledger client, service
\* The outcomes of IOTAClient.post_anchor(message, wait_for_inclusion):
\* the block may be refused (connect or submission failure after the
\* retries); once accepted, without waiting the metadata carries no
\* milestone reference; with waiting the poll ends with "included"
\* (the milestone reference present or not) or fails after the block was
\* accepted (timeout).
post_anchor(wait_for_inclusion) ==
    { [accepted |-> FALSE, ok |-> FALSE, referenced |-> FALSE],
      [accepted |-> TRUE,  ok |-> TRUE,  referenced |-> FALSE] }
    \cup (IF wait_for_inclusion
          THEN { [accepted |-> TRUE, ok |-> TRUE,  referenced |-> TRUE],
                 [accepted |-> TRUE, ok |-> FALSE, referenced |-> FALSE] }
          ELSE {})

\* AnchorService.create_anchor on a successful post: the record returned.
create_anchor(anchor_id, digest, item_count, start_time, end_time, now, block_id, referenced) ==
    [id |-> anchor_id, digest |-> digest, start_time |-> start_time,
     end_time |-> end_time, item_count |-> item_count,
     status |-> IF referenced THEN "confirmed" ELSE "posted",
     iota_block_id |-> block_id, created_at |-> now, posted_at |-> Stamp,
     confirmed_at |-> IF referenced THEN Stamp ELSE NoTime,
     error_message |-> NoError]

\* The ledger after a submission, and the id of the block it accepted:
\* every accepted block has an id of its own.
LedgerAfter(resp, digest) ==
    IF resp.accepted THEN ledger (+) SetToBag({digest}) ELSE ledger

BlockId(digest) == <<CopiesIn(digest, ledger) + 1>> \o digest

\* ------------------------------------------------------- anchor workflow
\* No block metadata was read in the step just taken.
NoMeta == [ok |-> FALSE, referenced |-> FALSE, state |-> "none"]

\* AnchorResult; job tells which return statement built it; first_id,
\* args, last_anchor_time, swallowed and accepted are copied from the
\* run, meta is
\* the block metadata a reconciliation handler read and waited the
\* seconds it found elapsed when it tested the backoff delay.
AnchorResult(success, anchor_id, digest, event_count, iota_block_id, error, start_time, end_time, job) ==
    [success |-> success, anchor_id |-> anchor_id, digest |-> digest,
     event_count |-> event_count, iota_block_id |-> iota_block_id,
     error |-> error, start_time |-> start_time, end_time |-> end_time,
     job |-> job, first_id |-> NoId, meta |-> NoMeta,
     args |-> << Absent, Absent >>, last_anchor_time |-> Absent,
     swallowed |-> FALSE, waited |-> 0, accepted |-> NoBlock]

\* No call returned in the step just taken.
NoOutcome ==
    AnchorResult(FALSE, NoId, NoDigest, 0, NoBlock, NoError, 0, 0, "none")

\* run_anchor_job without its "except Exception" branch: the exception
\* reaches the caller.
ExceptException_absent(start_time, end_time, error) ==
    AnchorResult(FALSE, NoId, NoDigest, 0, NoBlock, error, start_time, end_time,
                 "raised")

\* The "except Exception" branch of run_anchor_job: every exception
\* raised inside the try block becomes a result.
ExceptException(start_time, end_time, error) ==
    AnchorResult(FALSE, NoId, NoDigest, 0, NoBlock, error, start_time, end_time,
                 "error")

\* The return on an empty window as a failure.
EmptyWindowResult_failure(start_time, end_time) ==
    AnchorResult(FALSE, NoId, NoDigest, 0, NoBlock, "No events in window",
                 start_time, end_time, "empty")

\* "if window.is_empty": the result returned before the tree is built.
EmptyWindowResult(start_time, end_time) ==
    AnchorResult(TRUE, NoId, NoDigest, 0, NoBlock, NoError, start_time,
                 end_time, "empty")

\* CancelledError is not an Exception: it leaves run_anchor_job.
ExceptCancelled(start_time, end_time) ==
    AnchorResult(FALSE, NoId, NoDigest, 0, NoBlock, NoError, start_time, end_time,
                 "cancelled")

\* The window, tree and digest of the run of worker p (steps 1 and 2).
WindowOf(p) == fetch_events_for_window(wf[p].start_time, wf[p].end_time)

TreeOf(p) == from_raw_hashes(event_hashes(WindowOf(p)))

DigestOf(p) == root_hash(TreeOf(p))

\* The successes returned so far for a window.
FirstId(start_time, end_time) ==
    LET ids == { t[3] : t \in { u \in anchored : u[1] = start_time
                                                  /\ u[2] = end_time } }
    IN IF ids = {} THEN NoId ELSE CHOOSE i \in ids : TRUE

\* run_anchor_job returns (or an exception leaves it).
Return(p, run, result) ==
    /\ wf' = [wf EXCEPT ![p] = IdleJob]
    /\ outcome' = [result EXCEPT !.first_id = run.first_id,
                                 !.args = run.args,
                                 !.last_anchor_time = run.last_anchor_time,
                                 !.swallowed = run.swallowed,
                                 !.accepted = run.accepted]
    /\ anchored' = IF result.success /\ result.anchor_id # NoId
                   THEN anchored \cup { << result.start_time, result.end_time,
                                           result.anchor_id >> }
                   ELSE anchored

\* The run goes on.
Continue(p, run) ==
    /\ wf' = [wf EXCEPT ![p] = run]
    /\ outcome' = NoOutcome
    /\ anchored' = anchored

\* The windows the jobs are run on: an empty one, one of one event and
\* one of two events.
JobWindows == { <<0, 0>>, <<0, 1>>, <<0, 2>> }

\* The window the jobs started alongside reconciliation are run on: the
\* one of the pending anchor.
ScanWindows == { <<0, 1>> }

\* The calls made through the API: both bounds, one of them or none
\* passed.
OpenWindows ==
    { << Absent, Absent >>, << Absent, 2 >>, << 0, Absent >>,
      << 0, 1 >>, << 0, 2 >> }

\* EventConsumer.get_last_anchor_time: end_time of the first row of the
\* anchors in status posted or confirmed, ORDER BY end_time DESC; None
\* when there is none, and when the query raises.
get_last_anchor_time(db_ok) ==
    LET rows == { a \in anchors : a.status \in {"posted", "confirmed"} }
    IN IF db_ok /\ rows # {}
       THEN (CHOOSE a \in rows : \A b \in rows : b.end_time <= a.end_time).end_time
       ELSE Absent

\* The window start without the branch on last_anchor_time.
WindowStart_last_anchor_unread(start_time, end_time, last_anchor_time) ==
    IF start_time # Absent THEN start_time ELSE end_time - Day

\* run_anchor_job, "if start_time is None": the last anchor time when
\* there is one (a datetime is never falsy), else a day before the end.
WindowStart(start_time, end_time, last_anchor_time) ==
    IF start_time # Absent
    THEN start_time
    ELSE IF last_anchor_time # Absent
         THEN last_anchor_time
         ELSE end_time - Day

\* _check_existing_anchor: only the rows of list_anchors(limit=1) are
\* compared; a database error is swallowed and counts as "not found".
_check_existing_anchor(digest, start_time, end_time, db_ok) ==
    LET listed == IF db_ok THEN list_anchors("", 1) ELSE <<>>
        key == [digest |-> digest, start_time |-> start_time,
                end_time |-> end_time]
    IN { listed[k] : k \in { j \in 1..Len(listed) : SameWindow(listed[j], key) } }

\* run_anchor_job called with the arguments w: the window is selected
\* (datetime.utcnow() reads the clock), then
\* steps 1 to 3: the events of the window are fetched
\* (the event table never changes, so the fetch is taken together with
\* the first read of the anchors), the tree is built and the store is
\* checked for the anchor.  A fetch error, an empty window and an
\* existing anchor end the run at once.
StartJob(p, windows) ==
    /\ wf[p].pc = "idle"
    /\ \A q \in Workers : q < p => wf[q].pc # "idle"
    /\ runs' = runs + 1
    /\ \E w \in windows, fetch_ok \in BOOLEAN, check_ok \in BOOLEAN,
          last_ok \in BOOLEAN :
          LET end_time == IF w[2] = Absent THEN clock ELSE w[2]
              last_anchor_time == IF w[1] = Absent
                                  THEN get_last_anchor_time(last_ok)
                                  ELSE Absent
              start_time == WindowStart(w[1], end_time, last_anchor_time)
              window == fetch_events_for_window(start_time, end_time)
              digest == root_hash(from_raw_hashes(event_hashes(window)))
              found == _check_existing_anchor(digest, start_time, end_time,
                                              check_ok)
              run == [IdleJob EXCEPT !.pc = "post",
                                     !.start_time = start_time,
                                     !.end_time = end_time,
                                     !.first_id = FirstId(start_time, end_time),
                                     !.args = w,
                                     !.last_anchor_time = last_anchor_time,
                                     !.swallowed = (w[1] = Absent /\ ~last_ok)]
          IN /\ hidden' = (hidden \/ (fetch_ok /\ Len(window) > 0 /\ found = {}
                                      /\ _check_existing_anchor(digest, start_time,
                                                                end_time, TRUE) # {}))
             /\ IF ~fetch_ok
                THEN Return(p, run,
                            ExceptException(start_time, end_time,
                                            "Failed to fetch events"))
                ELSE IF Len(window) = 0
                THEN Return(p, run, EmptyWindowResult(start_time, end_time))
                ELSE IF found # {}
                THEN LET existing == CHOOSE a \in found : TRUE
                     IN Return(p, run,
                               AnchorResult(TRUE, existing.id, digest, Len(window),
                                            existing.iota_block_id, NoError,
                                            start_time, end_time, "duplicate"))
                ELSE Continue(p, run)
    /\ UNCHANGED << storeVars, ledger, clock, next_id, rec, scans >>
    /\ UNCHANGED engineVars

\* run_daily_anchor: the window handed to run_anchor_job is the day
\* before the midnight that precedes now (replace(hour=0, ...)).
run_daily_anchor(now) ==
    LET end_time == now - (now % Day)
    IN << end_time - Day, end_time >>

\* The daily_anchor job of the scheduler fires: run_anchor_job of main.py
\* calls run_daily_anchor, which calls run_anchor_job with both bounds.
RunDaily(p) == StartJob(p, { run_daily_anchor(clock) })

\* Time passes.
Tick ==
    /\ clock < MaxClock
    /\ clock' = clock + 1
    /\ outcome' = NoOutcome
    /\ UNCHANGED << storeVars, ledger, next_id, wf, anchored, hidden, runs,
                    rec, scans >>
    /\ UNCHANGED engineVars

\* Step 4: AnchorService.create_anchor posts the digest.  A failed post
\* leaves the FAILED record in memory only and raises.  The flag
\* wait_for_confirmation is read here for the first time.
CreateAnchor(p) ==
    /\ wf[p].pc = "post"
    /\ \E wait_for_confirmation \in BOOLEAN :
       \E resp \in post_anchor(wait_for_confirmation) :
          /\ ledger' = LedgerAfter(resp, DigestOf(p))
          /\ next_id' = IF resp.ok THEN next_id + 1 ELSE next_id
          /\ clock' = IF resp.ok THEN clock + 1 ELSE clock
          /\ IF resp.ok
             THEN Continue(p, [wf[p] EXCEPT
                      !.pc = "save",
                      !.accepted = BlockId(DigestOf(p)),
                      !.record = create_anchor(next_id, DigestOf(p),
                                     Len(WindowOf(p)), wf[p].start_time,
                                     wf[p].end_time, clock, BlockId(DigestOf(p)),
                                     resp.referenced)])
             ELSE Return(p, [wf[p] EXCEPT
                               !.accepted = IF resp.accepted
                                            THEN BlockId(DigestOf(p))
                                            ELSE NoBlock],
                         ExceptException(wf[p].start_time, wf[p].end_time,
                                         "Failed to post anchor"))
    /\ UNCHANGED << storeVars, hidden, runs, rec, scans >>
    /\ UNCHANGED engineVars

\* Step 5: save_anchor (upsert and commit); the id it returns is ignored.
SaveAnchor(p) ==
    /\ wf[p].pc = "save"
    /\ \E db_ok \in BOOLEAN :
          IF db_ok
          THEN /\ anchors' = save_anchor(anchors, wf[p].record)
               /\ Continue(p, [wf[p] EXCEPT !.pc = "items", !.pos = 0])
          ELSE /\ anchors' = anchors
               /\ Return(p, wf[p],
                         ExceptException(wf[p].start_time, wf[p].end_time,
                                         "database error"))
    /\ UNCHANGED << anchor_items, anchor_retry_log, ledger, clock,
                    next_id, hidden, runs, rec, scans >>
    /\ UNCHANGED engineVars

\* The anchor id the items go under: the id save_anchor returned, which
\* on a conflict is the id of the row that was there.
ItemAnchorId_returned(rows, record) ==
    IF \E a \in rows : SameWindow(a, record)
    THEN (CHOOSE a \in rows : SameWindow(a, record)).id
    ELSE record.id

\* The anchor id run_anchor_job hands to _store_anchor_items:
\* anchor_record.id, the uuid4() of create_anchor.
ItemAnchorId(rows, record) == record.id

\* Step 6, one pass of the loop of _store_anchor_items: get_proof and
\* save_anchor_item, which inserts the row under anchor_record.id and
\* commits.  The insert fails when no anchor row has that id.  After the
\* last item the closing commit and step 7 follow: the result is returned.
SaveAnchorItem(p) ==
    /\ wf[p].pc = "items"
    /\ wf[p].pos < Len(WindowOf(p))
    /\ \E db_ok \in BOOLEAN, commit_ok \in BOOLEAN :
          IF ~ForeignKeyHolds(anchors, ItemAnchorId(anchors, wf[p].record))
          THEN /\ anchor_items' = anchor_items
               /\ Return(p, wf[p],
                         ExceptException(wf[p].start_time, wf[p].end_time,
                                         "foreign key violation"))
          ELSE IF ~db_ok
          THEN /\ anchor_items' = anchor_items
               /\ Return(p, wf[p],
                         ExceptException(wf[p].start_time, wf[p].end_time,
                                         "database error"))
          ELSE /\ anchor_items' = anchor_items (+) SetToBag({
                           save_anchor_item(ItemAnchorId(anchors, wf[p].record),
                                            WindowOf(p)[wf[p].pos + 1].event_hash,
                                            wf[p].pos,
                                            to_compact(get_proof(TreeOf(p), wf[p].pos))) })
               /\ IF wf[p].pos + 1 < Len(WindowOf(p))
                  THEN Continue(p, [wf[p] EXCEPT !.pos = wf[p].pos + 1])
                  ELSE IF commit_ok
                  THEN Return(p, wf[p],
                              AnchorResult(TRUE, wf[p].record.id, DigestOf(p),
                                  Len(WindowOf(p)), wf[p].record.iota_block_id,
                                  NoError, wf[p].start_time, wf[p].end_time,
                                  "success"))
                  ELSE Return(p, wf[p],
                              ExceptException(wf[p].start_time, wf[p].end_time,
                                              "database error"))
    /\ UNCHANGED << anchors, anchor_retry_log, ledger, clock,
                    next_id, hidden, runs, rec, scans >>
    /\ UNCHANGED engineVars

\* The scheduler cancels the job at a suspension point: CancelledError is
\* not an Exception, so it leaves run_anchor_job without a result and
\* without any further write.
CancelJob(p) ==
    /\ wf[p].pc # "idle"
    /\ Return(p, wf[p], ExceptCancelled(wf[p].start_time, wf[p].end_time))
    /\ UNCHANGED << storeVars, ledger, clock, next_id, hidden, runs, rec,
                    scans >>
    /\ UNCHANGED engineVars

\* -------------------------------------------------------- reconciliation
\* _get_retry_count: COUNT(*) of the retry log; a database error is
\* swallowed and counts as 0.
_get_retry_count(anchor_id, db_ok) ==
    IF db_ok
    THEN Len(SelectSeq(anchor_retry_log, LAMBDA r : r.anchor_id = anchor_id))
    ELSE 0

\* _get_last_attempt_time: NoTime when the anchor has no retry logged; a
\* database error is swallowed and counts as no retry logged.
_get_last_attempt_time(anchor_id, db_ok) ==
    LET mine == SelectSeq(anchor_retry_log, LAMBDA r : r.anchor_id = anchor_id)
    IN IF db_ok /\ Len(mine) > 0 THEN mine[Len(mine)].created_at ELSE NoTime

\* _calculate_backoff, in seconds.
_calculate_backoff(retry_count) ==
    LET delay == retry_delay_base * (2 ^ retry_count)
    IN IF delay < retry_delay_max THEN delay ELSE retry_delay_max

\* The seconds a scan may find elapsed since the last attempt: none, the
\* delays after no, one and two retries, and the longest delay.
Waits == { 0, 60, 120, 240, 3600 }

\* The same for the scans that run next to the anchor jobs: before and
\* after every delay.
ScanWaits == { 0, 3600 }

\* The answers of get_block_metadata: an error, or the two fields the
\* client reads (referencedByMilestoneIndex present, ledgerInclusionState).
BlockMetadataAnswers ==
    { [ok |-> FALSE, referenced |-> FALSE, state |-> "unknown"] }
    \cup { [ok |-> TRUE, referenced |-> r, state |-> st] :
             r \in BOOLEAN, st \in {"included", "conflicting", "pending"} }

\* AnchorService.check_confirmation: the status of the record returned.
check_confirmation(meta) == IF meta.referenced THEN "confirmed" ELSE "posted"

\* The rows a scan iterates over are the ones read when the list query
\* ran; of each row the loop reads only these columns.
Listed(rows) ==
    [i \in 1..Len(rows) |->
        [id |-> rows[i].id, digest |-> rows[i].digest,
         item_count |-> rows[i].item_count,
         start_time |-> rows[i].start_time, end_time |-> rows[i].end_time,
         iota_block_id |-> rows[i].iota_block_id]]

\* What a handler of run_reconciliation returned for a listed anchor: the
\* string it returns (as job), the exception it caught or swallowed (as
\* error) and the block metadata it read.
ReconciliationReturn(job, anchor, error, meta) ==
    [AnchorResult(FALSE, anchor.id, anchor.digest, anchor.item_count,
                  anchor.iota_block_id, error, anchor.start_time,
                  anchor.end_time, job) EXCEPT !.meta = meta]

\* _retry_anchor going on, after the post, as run_anchor_job does: the
\* item of the anchor is stored.
_retry_anchor_storing_items(anchor, resp, on_failure) ==
    /\ ledger' = LedgerAfter(resp, anchor.digest)
    /\ anchor_items' = IF resp.ok
                       THEN anchor_items (+) SetToBag({
                                save_anchor_item(anchor.id, anchor.digest, 0,
                                                 <<>>) })
                       ELSE anchor_items
    /\ IF resp.ok
       THEN LET new_record == create_anchor(next_id, anchor.digest,
                                  anchor.item_count, anchor.start_time,
                                  anchor.end_time, clock, BlockId(anchor.digest),
                                  resp.referenced)
            IN /\ anchors' = update_anchor_status(anchors, anchor.id,
                                 new_record.status, new_record.iota_block_id,
                                 NoError)
               /\ anchor_retry_log' = Append(anchor_retry_log,
                                         [anchor_id |-> anchor.id,
                                          created_at |-> Stamp])
       ELSE /\ anchors' = on_failure
            /\ anchor_retry_log' = anchor_retry_log

\* _retry_anchor: the anchor is posted again with wait_for_confirmation.
\* After a successful post: update_anchor_status with the new record's
\* status and block id, then _record_retry_attempt.  A failed post raises
\* and leaves the store to the caller.  No item is read or written.
_retry_anchor(anchor, resp, on_failure) ==
    /\ ledger' = LedgerAfter(resp, anchor.digest)
    /\ anchor_items' = anchor_items
    /\ IF resp.ok
       THEN LET new_record == create_anchor(next_id, anchor.digest,
                                  anchor.item_count, anchor.start_time,
                                  anchor.end_time, clock, BlockId(anchor.digest),
                                  resp.referenced)
            IN /\ anchors' = update_anchor_status(anchors, anchor.id,
                                 new_record.status, new_record.iota_block_id,
                                 NoError)
               /\ anchor_retry_log' = Append(anchor_retry_log,
                                         [anchor_id |-> anchor.id,
                                          created_at |-> Stamp])
       ELSE /\ anchors' = on_failure
            /\ anchor_retry_log' = anchor_retry_log

\* _mark_for_review
_mark_for_review(anchor) ==
    update_anchor_status(anchors, anchor.id, "failed", NoBlock,
                         "Max retries exceeded - requires manual review")

\* _record_failure
_record_failure(anchor, error) ==
    update_anchor_status(anchors, anchor.id, "failed", NoBlock, error)

\* The for loop of a scan goes on to the next listed anchor after the
\* handler returned; a handler that called _retry_anchor (it returned
\* "retried", or caught the error of the post) has submitted the anchor.
Visit(call, returned) ==
    [call EXCEPT !.queue = Tail(call.queue),
                 !.resubmitted =
                     IF \/ returned.job = "retried"
                        \/ returned.error = "Failed to post anchor"
                     THEN call.resubmitted \cup { returned.anchor_id }
                     ELSE call.resubmitted]

\* run_reconciliation starts: the pending anchors are listed.  A database
\* error ends the scan in the except branch.
BeginReconciliation ==
    /\ rec.pc = "idle"
    /\ outcome' = NoOutcome
    /\ \E db_ok \in BOOLEAN :
          rec' = IF db_ok
                 THEN [pc |-> "pending",
                       queue |-> Listed(list_anchors("pending", 100)),
                       resubmitted |-> {}]
                 ELSE IdleRec
    /\ UNCHANGED << storeVars, ledger, clock, next_id, wf, anchored, hidden, runs >>
    /\ UNCHANGED engineVars

\* One of a bounded number of scans starts.
StartReconciliation ==
    /\ scans < MaxScans
    /\ scans' = scans + 1
    /\ BeginReconciliation

\* The interval job of the scheduler fires, time after time: a scan
\* starts when none is running.
ScheduledReconciliation ==
    /\ scans' = scans
    /\ BeginReconciliation

\* _process_pending_anchor on the next listed anchor; waits holds the
\* seconds that may have passed since the last retry logged for it.
ProcessPendingAnchor(waits) ==
    /\ rec.pc = "pending"
    /\ rec.queue # <<>>
    /\ LET anchor == Head(rec.queue)
       IN \E count_ok \in BOOLEAN, last_ok \in BOOLEAN, seconds \in waits :
          LET retry_count == _get_retry_count(anchor.id, count_ok)
              delay == _calculate_backoff(retry_count)
              last_attempt == _get_last_attempt_time(anchor.id, last_ok)
              waited == IF _get_last_attempt_time(anchor.id, TRUE) # NoTime
                        THEN seconds ELSE 0
          IN
            IF retry_count >= max_retries
            THEN /\ anchors' = _mark_for_review(anchor)
                 /\ outcome' = ReconciliationReturn("review", anchor, NoError,
                                                     NoMeta)
                 /\ UNCHANGED << anchor_items, anchor_retry_log, ledger >>
            ELSE IF last_attempt # NoTime /\ waited < delay
            THEN \* "Not time to retry yet"
                 /\ outcome' = [ReconciliationReturn("pending", anchor, NoError,
                                                      NoMeta)
                                   EXCEPT !.waited = waited]
                 /\ UNCHANGED << storeVars, ledger >>
            ELSE \E resp \in post_anchor(TRUE) :
                    /\ _retry_anchor(anchor, resp,
                           _record_failure(anchor, "Failed to post anchor"))
                    /\ outcome' = [(IF resp.ok
                                    THEN ReconciliationReturn("retried", anchor,
                                                              NoError, NoMeta)
                                    ELSE ReconciliationReturn("failed", anchor,
                                             "Failed to post anchor", NoMeta))
                                   EXCEPT !.waited = waited]
    /\ rec' = Visit(rec, outcome')
    /\ UNCHANGED << clock, next_id, wf, anchored, hidden, runs, scans >>
    /\ UNCHANGED engineVars

\* The pending list is done: the posted anchors are listed.
ListPosted ==
    /\ rec.pc = "pending"
    /\ outcome' = NoOutcome
    /\ rec.queue = <<>>
    /\ rec' = [rec EXCEPT !.pc = "posted",
                          !.queue = Listed(list_anchors("posted", 100))]
    /\ UNCHANGED << storeVars, ledger, clock, next_id, wf, anchored, hidden, runs,
                    scans >>
    /\ UNCHANGED engineVars

\* _check_confirmation on the next listed anchor.
CheckConfirmation ==
    /\ rec.pc = "posted"
    /\ rec.queue # <<>>
    /\ rec' = [rec EXCEPT !.queue = Tail(rec.queue)]
    /\ LET anchor == Head(rec.queue)
       IN IF anchor.iota_block_id = NoBlock
          THEN /\ anchors' = anchors
               /\ outcome' = ReconciliationReturn("failed", anchor, NoError,
                                                   NoMeta)
          ELSE \E meta \in BlockMetadataAnswers :
                 IF ~meta.ok
                 THEN /\ anchors' = anchors
                      /\ outcome' = ReconciliationReturn("failed", anchor,
                                         "Failed to check confirmation", meta)
                 ELSE IF check_confirmation(meta) = "confirmed"
                 THEN /\ anchors' = update_anchor_status(anchors, anchor.id,
                                        "confirmed", NoBlock, NoError)
                      /\ outcome' = ReconciliationReturn("confirmed", anchor,
                                                          NoError, meta)
                 ELSE /\ anchors' = anchors
                      /\ outcome' = ReconciliationReturn("pending", anchor,
                                                          NoError, meta)
    /\ UNCHANGED << anchor_items, anchor_retry_log, ledger, clock, next_id,
                    wf, anchored, hidden, runs, scans >>
    /\ UNCHANGED engineVars

\* The posted list is done: the failed anchors are listed.
ListFailed ==
    /\ rec.pc = "posted"
    /\ outcome' = NoOutcome
    /\ rec.queue = <<>>
    /\ rec' = [rec EXCEPT !.pc = "failed",
                          !.queue = Listed(list_anchors("failed", 100))]
    /\ UNCHANGED << storeVars, ledger, clock, next_id, wf, anchored, hidden, runs,
                    scans >>
    /\ UNCHANGED engineVars

\* _process_failed_anchor on the next listed anchor; waits holds the
\* ages (seconds since created_at) the anchor may have.
ProcessFailedAnchor(waits) ==
    /\ rec.pc = "failed"
    /\ rec.queue # <<>>
    /\ LET anchor == Head(rec.queue)
       IN \E count_ok \in BOOLEAN, age \in waits :
          LET retry_count == _get_retry_count(anchor.id, count_ok)
              delay == _calculate_backoff(retry_count)
          IN
            IF retry_count >= max_retries
            THEN /\ outcome' = ReconciliationReturn("review", anchor, NoError,
                                                     NoMeta)
                 /\ UNCHANGED << storeVars, ledger >>
            ELSE IF age < delay
            THEN /\ outcome' = [ReconciliationReturn("waiting", anchor, NoError,
                                                      NoMeta)
                                   EXCEPT !.waited = age]
                 /\ UNCHANGED << storeVars, ledger >>
            ELSE \* a failed retry is swallowed
                 \E resp \in post_anchor(TRUE) :
                    /\ _retry_anchor(anchor, resp, anchors)
                    /\ outcome' = [(IF resp.ok
                                    THEN ReconciliationReturn("retried", anchor,
                                                              NoError, NoMeta)
                                    ELSE ReconciliationReturn("review", anchor,
                                             "Failed to post anchor", NoMeta))
                                   EXCEPT !.waited = age]
    /\ rec' = Visit(rec, outcome')
    /\ UNCHANGED << clock, next_id, wf, anchored, hidden, runs, scans >>
    /\ UNCHANGED engineVars

\* The failed list is done: run_reconciliation returns.
FinishReconciliation ==
    /\ rec.pc = "failed"
    /\ outcome' = NoOutcome
    /\ rec.queue = <<>>
    /\ rec' = IdleRec
    /\ UNCHANGED << storeVars, ledger, clock, next_id, wf, anchored, hidden, runs,
                    scans >>
    /\ UNCHANGED engineVars

\* -------------------------------------------------------- verify endpoint
\* verify_inclusion(event_hash, anchor_id) with no proof in the request:
\* the values of "verified" the endpoint may answer.  A missing anchor
\* (404) or item answers FALSE; a stored proof that is NULL or empty is
\* "No Merkle proof available"; otherwise the stored path is parsed and
\* folded against the anchor's digest.
verify_inclusion(event_hash, anchor_id) ==
    LET found == get_anchor(anchor_id)
        items == get_anchor_item_by_hash(anchor_id, event_hash)
    IN IF found = {} \/ items = {}
       THEN {FALSE}
       ELSE LET anchor == CHOOSE a \in found : TRUE
            IN { IF item.merkle_proof = {}
                 THEN FALSE
                 ELSE LET proof_path == CHOOSE l \in item.merkle_proof : TRUE
                      IN IF proof_path = <<>>
                         THEN FALSE
                         ELSE verify_proof([leaf_hash |-> event_hash,
                                            leaf_index |-> item.position,
                                            proof_path |-> ParseCompact(proof_path),
                                            root_hash |-> anchor.digest,
                                            tree_size |-> anchor.item_count])
                 : item \in items }

\* ------------------------------------------- the Merkle engine on its own
\* The leaf values trees are built from, and the values a proof is
\* tampered with: leaf values, a value no tree holds, a node hash and a
\* leaf hash.
LeafValues == { <<2>>, <<3>> }

TamperValues == LeafValues \cup { <<4>>, <<1, 2, 3>>, <<0, 2>> }

LeafSeqs == UNION { [1..n -> LeafValues] : n \in 0..MaxLeaves }

\* The hashes from_raw_hashes may be handed: it takes any list of hex
\* strings as the leaf hashes, so a value that is the parent hash of two
\* others is among them.
RawValues == LeafValues \cup { compute_parent_hash(<<2>>, <<3>>) }

RawSeqs == UNION { [1..n -> RawValues] : n \in 1..MaxLeaves }

NoProof ==
    [leaf_hash |-> <<>>, leaf_index |-> 0, proof_path |-> <<>>,
     root_hash |-> <<>>, tree_size |-> 0]

\* A tree followed on its own: the mode and input of the constructor, the
\* leaf hashes of the tree built, the index get_proof was called with, the
\* proof it returned and the leaf hashes of a second tree built from the
\* reordered input.
IdleMerkle ==
    [pc |-> "idle", mode |-> "from_leaves", input |-> <<>>, tree |-> <<>>,
     leaf_index |-> 0, proof |-> NoProof, other |-> <<>>]

\* MerkleTree.from_leaves / from_hashes / from_raw_hashes on the input.
BuildTree ==
    /\ merkle.pc = "input"
    /\ merkle' = IF EmptyInput(merkle.mode, merkle.input)
                 THEN [merkle EXCEPT !.pc = "ValueError"]
                 ELSE [merkle EXCEPT !.pc = "built",
                                     !.tree = LeafNodes(merkle.mode, merkle.input)]
    /\ UNCHANGED << serviceVars, poll, settings >>

\* tree.get_proof(leaf_index) for an index of the tree, or one past
\* either end of it.
GetProof ==
    /\ merkle.pc = "built"
    /\ \E leaf_index \in (0 - Len(merkle.tree))..(Len(merkle.tree) + 1) :
          merkle' = IF OutOfBounds(merkle.tree, leaf_index)
                    THEN [merkle EXCEPT !.pc = "IndexError",
                                        !.leaf_index = leaf_index]
                    ELSE [merkle EXCEPT !.pc = "proof",
                                        !.leaf_index = leaf_index,
                                        !.proof = get_proof(merkle.tree,
                                                            leaf_index)]
    /\ UNCHANGED << serviceVars, poll, settings >>

\* The leaf hash of the proof is replaced by another value.
TamperLeaf ==
    /\ merkle.pc = "proof"
    /\ \E v \in TamperValues \ { merkle.proof.leaf_hash } :
          merkle' = [merkle EXCEPT !.pc = "tampered", !.proof.leaf_hash = v]
    /\ UNCHANGED << serviceVars, poll, settings >>

\* The sibling hash of one path element is replaced by another value.
TamperSibling ==
    /\ merkle.pc = "proof"
    /\ \E k \in 1..Len(merkle.proof.proof_path) :
       \E v \in TamperValues \ { merkle.proof.proof_path[k].hash } :
          merkle' = [merkle EXCEPT !.pc = "tampered",
                                   !.proof.proof_path[k].hash = v]
    /\ UNCHANGED << serviceVars, poll, settings >>

\* A second tree is built, in the same mode, from the input with two
\* leaves of different values swapped.
SwapLeaves ==
    /\ merkle.pc = "built"
    /\ \E i \in 1..Len(merkle.input), j \in 1..Len(merkle.input) :
          /\ i < j
          /\ merkle.input[i] # merkle.input[j]
          /\ merkle' = [merkle EXCEPT
                 !.pc = "swapped",
                 !.other = LeafNodes(merkle.mode,
                              [merkle.input EXCEPT ![i] = merkle.input[j],
                                                   ![j] = merkle.input[i]])]
    /\ UNCHANGED << serviceVars, poll, settings >>

\* A second tree is built by from_raw_hashes from another list of
\* hashes than the one the first tree was built from.
BuildSecond ==
    /\ merkle.pc = "built"
    /\ merkle.mode = "from_raw_hashes"
    /\ \E hashes \in RawSeqs \ { merkle.input } :
          merkle' = [merkle EXCEPT !.pc = "second",
                                   !.other = from_raw_hashes(hashes)]
    /\ UNCHANGED << serviceVars, poll, settings >>

\* ------------------------------------------- the ledger client on its own
\* The exception classes of iota_client.py and their base classes.
ExceptionBases ==
    [IOTAClientError |-> "Exception", ConnectionError |-> "IOTAClientError",
     PostingError |-> "IOTAClientError", ConfirmationError |-> "IOTAClientError"]

\* A hierarchy in which ConfirmationError is not an IOTAClientError.
issubclass_confirmation_apart(class, base) ==
    \/ class = base
    \/ base = "Exception"
    \/ class # "ConfirmationError" /\ ExceptionBases[class] = base

\* "except <base>" catches an exception of the class.
issubclass(class, base) ==
    \/ class = base
    \/ base = "Exception"
    \/ ExceptionBases[class] = base

\* A post_anchor call: its position, the flag, the time waited (in poll
\* intervals), the ledgerInclusionState of the polls made so far (history),
\* the metadata returned, the message and the class of the error raised,
\* what the submission attempts made so far ended with (history) and the
\* block id the ledger answered.
IdlePoll ==
    [pc |-> "idle", wait_for_inclusion |-> FALSE, elapsed |-> 0,
     answers |-> <<>>, metadata |-> NoMeta, error |-> NoError,
     submissions |-> <<>>, block_id |-> NoBlock, exception |-> "none"]

\* What one call of _submit_tagged_data_block may end with: the block id
\* of the response, PostingError (raised on an HTTP status error) or
\* another httpx.HTTPError (a transport error, which is not caught there).
SubmissionAnswers == { "blockId", "PostingError", "HTTPError" }

\* retry_if_exception_type((httpx.HTTPError, IOTAClientError))
Retried(answer) == answer \in { "PostingError", "HTTPError" }

\* A stop condition that lets one attempt more through.
stop_after_attempt_exclusive(attempt_number) ==
    attempt_number > IOTA_RETRY_COUNT

\* stop_after_attempt(settings.IOTA_RETRY_COUNT)
stop_after_attempt(attempt_number) == attempt_number >= IOTA_RETRY_COUNT

\* A timeout test that holds only once the timeout is exceeded.
TimedOut_exceeded(elapsed) == elapsed > MaxPolls

\* "if elapsed >= timeout" at the head of the polling loop; the timeout
\* is MaxPolls poll intervals.
TimedOut(elapsed) == elapsed >= MaxPolls

\* post_anchor is called: a client that is not connected connects first,
\* and a failing connect raises ConnectionError out of post_anchor before
\* any block is submitted.
PostAnchor ==
    /\ poll.pc = "idle"
    /\ \E wait_for_inclusion \in BOOLEAN, connected \in BOOLEAN :
          poll' = IF ~connected
                  THEN [poll EXCEPT !.pc = "raised",
                                    !.wait_for_inclusion = wait_for_inclusion,
                                    !.error = "Failed to connect to IOTA node",
                                    !.exception = "ConnectionError"]
                  ELSE [poll EXCEPT !.pc = "submitting",
                                    !.wait_for_inclusion = wait_for_inclusion]
    /\ UNCHANGED << serviceVars, merkle, settings >>

\* One attempt of the AsyncRetrying loop of _submit_block_with_retry.  A
\* block id ends the loop: without wait_for_inclusion the metadata of the
\* block is returned at once, with it _wait_for_confirmation starts.  An
\* exception of a retried type is raised again (reraise=True) once the
\* stop condition holds; post_anchor wraps what leaves the loop in a
\* PostingError.
SubmitBlock ==
    /\ poll.pc = "submitting"
    /\ \E answer \in SubmissionAnswers :
          LET made == [poll EXCEPT
                         !.submissions = Append(poll.submissions, answer)]
          IN poll' =
               IF answer = "blockId"
               THEN IF ~poll.wait_for_inclusion
                    THEN [made EXCEPT !.pc = "returned",
                             !.block_id = <<Len(made.submissions)>>,
                             !.metadata = [ok |-> TRUE, referenced |-> FALSE,
                                           state |-> "none"]]
                    ELSE [made EXCEPT !.pc = "polling",
                             !.block_id = <<Len(made.submissions)>>]
               ELSE IF Retried(answer)
                       /\ ~stop_after_attempt(Len(made.submissions))
               THEN made
               ELSE [made EXCEPT !.pc = "raised",
                                 !.error = "Block submission failed",
                                 !.exception = "PostingError"]
    /\ UNCHANGED << serviceVars, merkle, settings >>

\* One pass of the "while True" loop of _wait_for_confirmation: the
\* timeout test, get_block_metadata, the two tests of the inclusion state
\* and the sleep.  "raise ConfirmationError" stands inside the try block
\* whose handler is "except IOTAClientError".  An error that leaves the
\* loop is wrapped by post_anchor in a PostingError with its message.
Poll ==
    /\ poll.pc = "polling"
    /\ IF TimedOut(poll.elapsed)
       THEN poll' = [poll EXCEPT !.pc = "raised",
                                 !.error = "Block confirmation timeout",
                                 !.exception = "PostingError"]
       ELSE \E meta \in BlockMetadataAnswers :
              LET polled == [poll EXCEPT
                               !.answers = Append(poll.answers, meta.state)]
                  raised == IF ~meta.ok THEN "IOTAClientError"
                            ELSE IF meta.state = "conflicting"
                            THEN "ConfirmationError"
                            ELSE "none"
              IN poll' =
                   IF meta.ok /\ meta.state = "included"
                   THEN [polled EXCEPT !.pc = "returned", !.metadata = meta]
                   ELSE IF raised # "none" /\ ~issubclass(raised, "IOTAClientError")
                   THEN [polled EXCEPT !.pc = "raised",
                                       !.error = "Block has conflicting state",
                                       !.exception = "PostingError"]
                   ELSE [polled EXCEPT !.elapsed = poll.elapsed + 1]
    /\ UNCHANGED << serviceVars, merkle, settings >>

\* ----------------------------------------------------- the specifications
\* The service after construction, given the rows found in the store.
InitService(rows, retries) ==
    /\ anchors = rows
    /\ anchor_retry_log = SeedLog(retries)
    /\ anchor_items = EmptyBag
    /\ ledger = EmptyBag
    /\ clock = 2
    /\ next_id = 2
    /\ wf = [p \in Workers |-> IdleJob]
    /\ outcome = NoOutcome
    /\ anchored = {}
    /\ hidden = FALSE
    /\ runs = 0
    /\ rec = IdleRec
    /\ scans = 0

\* Settings: of the configuration only the toggle IOTA_ENABLED, which
\* defaults to True.
Settings(enabled) == [IOTA_ENABLED |-> enabled]

\* The state after construction: no tree and no ledger call is followed
\* on its own, the configuration is the default one.
InitWith(rows, retries) ==
    /\ InitService(rows, retries)
    /\ merkle = IdleMerkle
    /\ poll = IdlePoll
    /\ settings = Settings(TRUE)

\* The anchor jobs alone, started on an empty store.
Init == InitWith({}, 0)

Next ==
    \/ \E p \in Workers : runs < MaxRuns /\ StartJob(p, JobWindows)
    \/ \E p \in Workers : CreateAnchor(p)
    \/ \E p \in Workers : SaveAnchor(p)
    \/ \E p \in Workers : SaveAnchorItem(p)
    \/ \E p \in Workers : CancelJob(p)

Spec == Init /\ [][Next]_vars

\* The anchor jobs run one after the other (one scheduler job at a time).
NextSerial ==
    \/ runs < SerialRuns /\ StartJob(1, JobWindows)
    \/ CreateAnchor(1)
    \/ SaveAnchor(1)
    \/ SaveAnchorItem(1)
    \/ CancelJob(1)

SpecSerial == Init /\ [][NextSerial]_vars

\* The anchor jobs called one after the other through the API, with or
\* without bounds, on a store that is empty or holds the pending anchor,
\* the ledger enabled or disabled by configuration.
InitWindow ==
    \E rows \in { {}, {SeedRow("pending")} }, enabled \in BOOLEAN :
        /\ InitService(rows, 0)
        /\ merkle = IdleMerkle
        /\ poll = IdlePoll
        /\ settings = Settings(enabled)

NextWindow ==
    \/ runs < WindowRuns /\ StartJob(1, OpenWindows)
    \/ CreateAnchor(1)
    \/ SaveAnchor(1)
    \/ SaveAnchorItem(1)
    \/ CancelJob(1)

SpecWindow == InitWindow /\ [][NextWindow]_vars

\* The daily job of the scheduler alone: it fires at any time, or does
\* not fire while days pass.
NextDaily ==
    \/ runs < DailyRuns /\ RunDaily(1)
    \/ CreateAnchor(1)
    \/ SaveAnchor(1)
    \/ SaveAnchorItem(1)
    \/ CancelJob(1)
    \/ Tick

SpecDaily == Init /\ [][NextDaily]_vars

\* The anchor jobs together with reconciliation, started on a store that
\* holds a pending anchor.
InitScan ==
    \E retries \in {0, max_retries} : InitWith({SeedRow("pending")}, retries)

NextScan ==
    \/ \E p \in 1..ScanWorkers : runs < ScanRuns /\ StartJob(p, ScanWindows)
    \/ \E p \in Workers : CreateAnchor(p)
    \/ \E p \in Workers : SaveAnchor(p)
    \/ \E p \in Workers : SaveAnchorItem(p)
    \/ \E p \in Workers : CancelJob(p)
    \/ StartReconciliation
    \/ ProcessPendingAnchor(ScanWaits)
    \/ ListPosted
    \/ CheckConfirmation
    \/ ListFailed
    \/ ProcessFailedAnchor(ScanWaits)
    \/ FinishReconciliation

SpecScan == InitScan /\ [][NextScan]_vars

\* One scan next to anchor jobs that are run one after the other on the
\* window of the pending anchor and on a window that encloses it.
HoldWindows == { << 0, 1 >>, << 0, 2 >> }

NextHold ==
    \/ runs < HoldRuns /\ StartJob(1, HoldWindows)
    \/ CreateAnchor(1)
    \/ SaveAnchor(1)
    \/ SaveAnchorItem(1)
    \/ CancelJob(1)
    \/ StartReconciliation
    \/ ProcessPendingAnchor(ScanWaits)
    \/ ListPosted
    \/ CheckConfirmation
    \/ ListFailed
    \/ ProcessFailedAnchor(ScanWaits)
    \/ FinishReconciliation

SpecHold == InitScan /\ [][NextHold]_vars

\* Reconciliation alone, scan after scan, on a store that holds a
\* pending anchor with any number of retries logged up to max_retries.
\* The ledger takes at most MaxBlocks blocks and refuses the rest.
InitReconcile ==
    \E retries \in 0..max_retries : InitWith({SeedRow("pending")}, retries)

LedgerHolds == BagCardinality(ledger) <= MaxBlocks

NextReconcile ==
    \/ ScheduledReconciliation
    \/ ProcessPendingAnchor(Waits) /\ LedgerHolds'
    \/ ListPosted
    \/ CheckConfirmation
    \/ ListFailed
    \/ ProcessFailedAnchor(Waits) /\ LedgerHolds'
    \/ FinishReconciliation

\* The scheduler keeps running scans and every scan goes on to its end;
\* again and again the list query answers, the delay of an anchor is
\* found elapsed and the ledger answers the metadata request with the
\* milestone that references the block.
FairReconcile ==
    /\ WF_vars(NextReconcile)
    /\ SF_vars(ScheduledReconciliation /\ rec'.pc = "pending")
    /\ SF_vars(ProcessPendingAnchor(Waits) /\ LedgerHolds'
                 /\ outcome'.job # "pending")
    /\ SF_vars(ProcessFailedAnchor(Waits) /\ LedgerHolds'
                 /\ outcome'.job # "waiting")
    /\ SF_vars(CheckConfirmation /\ outcome'.job = "confirmed")

SpecReconcile == InitReconcile /\ [][NextReconcile]_vars /\ FairReconcile

\* The Merkle engine: a constructor is called on an input of up to
\* MaxLeaves leaves, proofs are taken from the tree and tampered with,
\* and the tree of a reordered input is built next to it.
InitMerkle ==
    /\ InitService({}, 0)
    /\ poll = IdlePoll
    /\ settings = Settings(TRUE)
    /\ \E mode \in Modes, input \in LeafSeqs :
          merkle = [IdleMerkle EXCEPT !.pc = "input", !.mode = mode,
                                      !.input = input]

NextMerkle ==
    \/ BuildTree
    \/ GetProof
    \/ TamperLeaf
    \/ TamperSibling
    \/ SwapLeaves
    \/ BuildSecond

SpecMerkle == InitMerkle /\ [][NextMerkle]_vars

\* The ledger client: one post_anchor call, poll by poll.
InitPoll == InitWith({}, 0)

NextPoll ==
    \/ PostAnchor
    \/ SubmitBlock
    \/ Poll

SpecPoll == InitPoll /\ [][NextPoll]_vars

\* The same call on an event loop that keeps running: a coroutine that
\* can take its next pass through the polling loop, or its next
\* submission attempt, takes it.
FairPoll == WF_vars(Poll) /\ WF_vars(SubmitBlock)

SpecPollFair == InitPoll /\ [][NextPoll]_vars /\ FairPoll

\* ------------------------------------------------------------ properties
\* The errors that stand for a failure of a dependency (event source,
\* ledger, database) rather than for a decision of the service.
DependencyErrors ==
    { "Failed to fetch events", "Failed to post anchor", "database error" }

\* A run_anchor_job call returned a result in the step just taken.
Returned == outcome.job \in { "empty", "duplicate", "success", "error" }

\* The rows of the window and digest of a run or of a result.
RowsOf(digest, start_time, end_time) ==
    { a \in anchors : /\ a.digest = digest
                      /\ a.start_time = start_time
                      /\ a.end_time = end_time }

WindowDigest(start_time, end_time) ==
    root_hash(from_raw_hashes(event_hashes(
        fetch_events_for_window(start_time, end_time))))

RowsOfWindow(start_time, end_time) ==
    RowsOf(WindowDigest(start_time, end_time), start_time, end_time)

\* C1: a run on a window for which an earlier run already returned
\* success returns success too, with the same anchor id, and the store
\* holds exactly one row for the window, whatever other anchors exist (no
\* dependency failing and no lookup error swallowed).
C1_RerunSameAnchor ==
    ( /\ Returned
      /\ outcome.first_id # NoId
      /\ ~hidden
      /\ outcome.error \notin DependencyErrors )
    => /\ outcome.success
       /\ outcome.anchor_id = outcome.first_id
       /\ Cardinality(RowsOfWindow(outcome.start_time, outcome.end_time)) = 1

\* C2: a run that starts while the store holds an anchor with its digest
\* and window does not go on to the ledger submission (it returns the
\* anchor as a duplicate in its first step).
C2_DuplicateNeverPosts ==
    [][ \A p \in Workers :
           ( /\ wf[p].pc = "idle"
             /\ wf'[p].pc = "post"
             /\ ~hidden' )
           => RowsOfWindow(wf'[p].start_time, wf'[p].end_time) = {} ]_vars

\* C3: in every state every anchor row with item_count = n has exactly n
\* item rows, at the positions 0..n-1.
C3_ItemsComplete ==
    \A a \in anchors :
       /\ count_anchor_items(a.id) = a.item_count
       /\ { it.position : it \in { r \in BagToSet(anchor_items) :
                                     r.anchor_id = a.id } }
            = 0..(a.item_count - 1)

\* C4: when a run on a non-empty window returns success, the anchor it
\* names is stored with item_count equal to the number of its items and
\* with the raw-mode Merkle root of its items' hashes, in position order,
\* as digest.
C4_DigestOverItems ==
    ( Returned /\ outcome.success /\ outcome.anchor_id # NoId )
    => \E a \in get_anchor(outcome.anchor_id) :
          LET items == get_anchor_items(a.id)
          IN /\ count_anchor_items(a.id) = a.item_count
             /\ Len(items) = a.item_count
             /\ Len(items) > 0
             /\ a.digest = root_hash(from_raw_hashes(
                               [i \in 1..Len(items) |-> items[i].event_hash]))

\* C5: when a run has anchored a non-empty window, verify answers
\* verified = true for every event of the window, with the proof stored
\* with the item, the single-event window included.
C5_EveryEventVerifies ==
    ( outcome.job = "success" )
    => \A i \in 1..outcome.event_count :
          verify_inclusion(
              fetch_events_for_window(outcome.start_time,
                                      outcome.end_time)[i].event_hash,
              outcome.anchor_id) = {TRUE}

\* C6: when a run ends because the ledger submission or a database write
\* failed, the store holds an anchor row for the window with status
\* failed and an error message.
C6_FailureLeavesFailedRow ==
    ( outcome.job = "error"
      /\ outcome.error \in { "Failed to post anchor", "database error" } )
    => \E a \in anchors :
          /\ a.start_time = outcome.start_time
          /\ a.end_time = outcome.end_time
          /\ a.status = "failed"
          /\ a.error_message # NoError

\* C7: no exception other than a cancellation leaves run_anchor_job: a
\* failure of the fetch, the ledger submission or the persistence comes
\* back as a result with success = false and the error set.
C7_ErrorsBecomeResults ==
    /\ outcome.job # "raised"
    /\ outcome.job = "error" => ( ~outcome.success /\ outcome.error # NoError )
    /\ ( Returned /\ ~outcome.success ) => outcome.job = "error"

\* A run failed in its persistence and returned the failure as a result.
C7_Witness ==
    /\ outcome.job = "error"
    /\ outcome.error = "database error"
    /\ ~outcome.success

\* C8: no step changes the status of an anchor row that is confirmed.
C8_ConfirmedIsTerminal ==
    [][ \A a \in anchors :
           a.status = "confirmed"
           => \A b \in anchors' : b.id = a.id => b.status = "confirmed" ]_vars

\* C9: in every state no two anchor rows have the same digest,
\* start_time and end_time.
C9_UniqueDigestWindow ==
    \A a \in anchors : \A b \in anchors : SameWindow(a, b) => a = b

\* An upsert has hit the conflict (the run holds a record whose id is not
\* the id of the stored row of its window) and a reconciliation scan has
\* been started.
C9_Witness ==
    /\ scans > 0
    /\ \E p \in Workers :
          /\ wf[p].pc = "items"
          /\ ~ForeignKeyHolds(anchors, wf[p].record.id)
          /\ RowsOf(wf[p].record.digest, wf[p].record.start_time,
                    wf[p].record.end_time) # {}

\* C10: of two runs in flight together on the same window both report
\* success: a run that returns while another run on its window is in
\* flight returns success (no dependency failing, no lookup error
\* swallowed, no earlier success on the window).
C10_ConcurrentRunsSucceed ==
    ( /\ Returned
      /\ outcome.first_id = NoId
      /\ ~hidden
      /\ outcome.error \notin DependencyErrors
      /\ \E q \in Workers : /\ wf[q].pc # "idle"
                            /\ wf[q].start_time = outcome.start_time
                            /\ wf[q].end_time = outcome.end_time )
    => outcome.success

\* The step just taken is the visit of the next listed anchor in a phase
\* of the reconciliation scan.
Visited(phase) ==
    /\ rec.pc = phase
    /\ rec.queue # <<>>
    /\ rec'.pc = phase
    /\ rec'.queue = Tail(rec.queue)

\* retry_count(id) over a state of the retry log.
RetryCount(log, anchor_id) ==
    Len(SelectSeq(log, LAMBDA r : r.anchor_id = anchor_id))

\* C11: when the posted scan visits an anchor that is in status posted
\* and the ledger metadata reports ledgerInclusionState = included, the
\* anchor is confirmed afterwards, confirmed_at is set and iota_block_id
\* is the one it had.
C11_IncludedBecomesConfirmed ==
    [][ ( /\ Visited("posted")
          /\ outcome'.meta.ok
          /\ outcome'.meta.state = "included" )
        => \A a \in anchors :
              ( a.id = outcome'.anchor_id /\ a.status = "posted" )
              => \E b \in anchors' :
                    /\ b.id = a.id
                    /\ b.status = "confirmed"
                    /\ b.confirmed_at # NoTime
                    /\ b.iota_block_id = a.iota_block_id ]_vars

\* C12: when the posted scan visits an anchor that is in status posted,
\* metadata reporting conflicting makes it failed (never confirmed) and
\* metadata reporting pending leaves it posted.
C12_ConflictingBecomesFailed ==
    [][ ( Visited("posted") /\ outcome'.meta.ok )
        => \A a \in anchors :
              ( a.id = outcome'.anchor_id /\ a.status = "posted" )
              => \E b \in anchors' :
                    /\ b.id = a.id
                    /\ outcome'.meta.state = "conflicting" => b.status = "failed"
                    /\ outcome'.meta.state = "pending" => b.status = "posted"
      ]_vars

\* C13: the retry count of an anchor never decreases; a scan that visits
\* an anchor whose retry count has reached max_retries does not submit it
\* to the ledger, and in the pending scan it leaves it failed with the
\* review message.
C13_RetryCapHolds ==
    [][ /\ \A a \in anchors :
              RetryCount(anchor_retry_log', a.id)
                  >= RetryCount(anchor_retry_log, a.id)
        /\ \A phase \in { "pending", "failed" } :
              ( /\ Visited(phase)
                /\ RetryCount(anchor_retry_log, Head(rec.queue).id)
                       >= max_retries )
              => /\ ledger' = ledger
                 /\ phase = "pending"
                    => \A b \in anchors' :
                          b.id = Head(rec.queue).id
                          => /\ b.status = "failed"
                             /\ b.error_message =
                                  "Max retries exceeded - requires manual review"
      ]_vars

\* C14: every resubmission of an anchor by reconciliation adds a row to
\* the retry log, whether the ledger accepted it or not (so that an
\* anchor whose submission always fails reaches max_retries and is
\* marked for review).
C14_EveryRetryIsRecorded ==
    [][ ( /\ Visited("pending") \/ Visited("failed")
          /\ \/ outcome'.job = "retried"
             \/ outcome'.error = "Failed to post anchor" )
        => RetryCount(anchor_retry_log', outcome'.anchor_id)
              = RetryCount(anchor_retry_log, outcome'.anchor_id) + 1 ]_vars

\* C15: in post_anchor with wait_for_inclusion, a poll that reports
\* ledgerInclusionState = conflicting ends the polling at that poll: the
\* call fails with the conflicting-state error, not with the timeout
\* error after further polls.
C15_ConflictingStopsPolling ==
    [][ ( /\ poll.pc = "polling"
          /\ poll'.answers = Append(poll.answers, "conflicting") )
        => /\ poll'.pc = "raised"
           /\ poll'.error = "Block has conflicting state" ]_vars

\* C16: the proof get_proof returns for any leaf of a tree built from a
\* non-empty leaf sequence, of odd and of non-power-of-two length too, is
\* accepted by verify_proof.
C16_ProofsVerify ==
    merkle.pc = "proof" => verify_proof(merkle.proof)

\* The proof of the last leaf of a tree of five leaves (promoted twice)
\* has been taken and is accepted.
C16_Witness ==
    /\ merkle.pc = "proof"
    /\ merkle.proof.tree_size = 5
    /\ merkle.proof.leaf_index = 4
    /\ Len(merkle.proof.proof_path) = 1
    /\ verify_proof(merkle.proof)

\* C17: a proof of get_proof whose leaf hash, or the sibling hash of one
\* of its path elements, has been replaced by a different value is
\* rejected by verify_proof.
C17_TamperedProofFails ==
    merkle.pc = "tampered" => ~verify_proof(merkle.proof)

\* A sibling on the right in a path of three elements has been replaced
\* and the proof is rejected.
C17_Witness ==
    /\ merkle.pc = "tampered"
    /\ Len(merkle.proof.proof_path) = 3
    /\ merkle.proof.leaf_hash = merkle.tree[merkle.proof.leaf_index + 1]
    /\ \E k \in 1..3 :
          /\ merkle.proof.proof_path[k].direction = "R"
          /\ merkle.proof.proof_path[k].hash
                # get_proof(merkle.tree, merkle.proof.leaf_index).proof_path[k].hash
    /\ ~verify_proof(merkle.proof)

\* The reference reduction written top-down: the leaves are split at
\* the largest power of two below their number, the two parts are
\* reduced and combined as H(0x01, left, right); a part of one node is
\* that node itself.
SplitPoint(n) ==
    CHOOSE k \in 1..n : /\ k < n
                        /\ 2 * k >= n
                        /\ \E e \in 0..n : k = 2 ^ e

RECURSIVE ReferenceRoot(_)
ReferenceRoot(nodes) ==
    IF Len(nodes) = 1
    THEN nodes[1]
    ELSE LET k == SplitPoint(Len(nodes))
         IN <<NODE_PREFIX>> \o ReferenceRoot(SubSeq(nodes, 1, k))
                            \o ReferenceRoot(SubSeq(nodes, k + 1, Len(nodes)))

\* C18: the root of a tree is the result of the reference reduction in
\* which an unpaired rightmost node is carried up unchanged: the root of
\* a single leaf is its leaf hash, the root of three leaves a, b, c is
\* H(H(a, b), c).
C18_RootIsPromotingReduction ==
    merkle.pc = "built"
    => LET t == merkle.tree
       IN /\ root_hash(t) = ReferenceRoot(t)
          /\ Len(t) = 1 => root_hash(t) = t[1]
          /\ Len(t) = 3 => root_hash(t) = <<NODE_PREFIX, NODE_PREFIX>>
                                             \o t[1] \o t[2] \o t[3]

\* A tree of three leaves has been built.
C18_Witness ==
    /\ merkle.pc = "built"
    /\ Len(merkle.tree) = 3
    /\ root_hash(merkle.tree)
          = compute_parent_hash(compute_parent_hash(merkle.tree[1],
                                                    merkle.tree[2]),
                                merkle.tree[3])

\* C19: the tree built from a leaf sequence with two leaves of different
\* values swapped has another root than the tree of the sequence.
C19_SwapChangesRoot ==
    merkle.pc = "swapped" => root_hash(merkle.other) # root_hash(merkle.tree)

\* Two leaves of a sequence of five have been swapped and the roots
\* differ.
C19_Witness ==
    /\ merkle.pc = "swapped"
    /\ Len(merkle.tree) = 5
    /\ merkle.other # merkle.tree
    /\ root_hash(merkle.other) # root_hash(merkle.tree)

\* C20: in each of the three modes the constructor raises ValueError on
\* an empty input, and a tree that was built has at least one leaf.
C20_EmptyInputRaises ==
    /\ ( merkle.pc \notin { "idle", "input" } /\ Len(merkle.input) = 0 )
       => merkle.pc = "ValueError"
    /\ merkle.pc \in { "built", "proof", "tampered", "swapped" }
       => Len(merkle.tree) > 0
    /\ merkle.pc = "ValueError" => Len(merkle.input) = 0

\* from_raw_hashes has raised on the empty list.
C20_Witness ==
    /\ merkle.pc = "ValueError"
    /\ merkle.mode = "from_raw_hashes"
    /\ merkle.input = <<>>

\* C21: get_proof(i) on a tree of n leaves raises IndexError for every
\* i < 0 and every i >= n, and returns no proof then; an index of the tree
\* is not refused.
C21_OutOfBoundsRaises ==
    merkle.pc \in {"proof", "IndexError"} =>
        /\ (merkle.leaf_index < 0 \/ merkle.leaf_index >= Len(merkle.tree))
              <=> merkle.pc = "IndexError"
        /\ merkle.pc = "IndexError" => merkle.proof = NoProof

\* get_proof was called with a negative index and raised.
C21_Witness ==
    /\ merkle.pc = "IndexError"
    /\ merkle.leaf_index < 0
    /\ Len(merkle.tree) > 1

LastAnchoredEnd ==
    LET ends == { a.end_time :
                    a \in { b \in anchors :
                              b.status \in {"posted", "confirmed"} } }
    IN IF ends = {} THEN Absent
       ELSE CHOOSE e \in ends : \A f \in ends : f <= e

\* C23: the daily windows cover time without gap or overlap: the window
\* of a daily job starts where the last anchored window ended, also after
\* a daily fire was missed (a job that runs again on a day already
\* anchored is left aside).
C23_DailyWindowsAbut ==
    [][runs' = runs + 1 =>
        LET run == IF wf'[1].pc = "idle" THEN outcome' ELSE wf'[1]
        IN (LastAnchoredEnd # Absent /\ LastAnchoredEnd < run.end_time) =>
              run.start_time = LastAnchoredEnd
    ]_vars

\* C24: with the ledger disabled by configuration no run submits
\* anything to the ledger and no run succeeds in anchoring a window (a
\* run ends with the failure Unavailable).
C24_DisabledLedgerUntouched ==
    ~settings.IOTA_ENABLED =>
        /\ ledger = EmptyBag
        /\ outcome.job # "success"

\* C25: a run whose window holds no event (and whose fetch answered) is
\* a successful no-op: it returns in the step it starts in with success, event_count 0,
\* no anchor id, no digest and no block id, nothing is submitted to the
\* ledger, and the anchors and the anchor items are left as they were.
C25_EmptyWindowIsNoOp ==
    [][(/\ runs' = runs + 1
        /\ outcome'.job # "none"
        /\ fetch_events_for_window(outcome'.start_time,
                                    outcome'.end_time) = <<>>
        /\ outcome'.error # "Failed to fetch events")
       => /\ outcome'.success
          /\ outcome'.job = "empty"
          /\ outcome'.event_count = 0
          /\ outcome'.anchor_id = NoId
          /\ outcome'.digest = NoDigest
          /\ outcome'.iota_block_id = NoBlock
          /\ outcome'.error = NoError
          /\ ledger' = ledger
          /\ anchors' = anchors
          /\ anchor_items' = anchor_items
    ]_vars

\* A run on the empty window returned while the store holds an anchor
\* and its item.
C25_Witness ==
    /\ outcome.job = "empty"
    /\ outcome.start_time = 0
    /\ outcome.end_time = 0
    /\ anchors # {}
    /\ anchor_items # EmptyBag

\* The place of a status on the path pending, building, posting, posted,
\* confirmed (failed is off the path).
StatusRank(status) ==
    CASE status = "pending"   -> 1
      [] status = "building"  -> 2
      [] status = "posting"   -> 3
      [] status = "posted"    -> 4
      [] status = "confirmed" -> 5
      [] OTHER                -> 0

\* C26: every change of an anchor's status goes forward on the path
\* pending, building, posting, posted, confirmed, or to failed, or from
\* failed to pending; none goes backwards and none goes from failed
\* straight to posted or confirmed.
C26_StatusFollowsDag ==
    [][\A a \in anchors, b \in anchors' :
          (a.id = b.id /\ a.status # b.status) =>
              \/ b.status = "failed"
              \/ a.status = "failed" /\ b.status = "pending"
              \/ /\ a.status # "failed"
                 /\ StatusRank(a.status) < StatusRank(b.status)
    ]_vars

\* The message _mark_for_review writes.
ReviewMessage == "Max retries exceeded - requires manual review"

\* An anchor that reconciliation has nothing left to do for.
Settled(a) ==
    \/ a.status = "confirmed"
    \/ a.status = "failed" /\ a.error_message = ReviewMessage

\* C27: under fair repeated scans and a ledger that answers every
\* request, every anchor eventually is confirmed or is failed with the
\* review message; none stays pending, posted or plainly failed for ever.
C27_EveryAnchorSettles ==
    <>(\A a \in anchors : Settled(a))

\* The step is a handler of the pending scan that submitted the anchor
\* at the head of the list again.
PendingResubmitted ==
    /\ rec.pc = "pending"
    /\ rec.queue # <<>>
    /\ rec'.queue = Tail(rec.queue)
    /\ outcome'.job \in {"retried", "failed"}

\* C29: a scan submits a pending anchor with n logged retries, 0 < n <
\* max_retries, again only if the time since the last logged retry is at
\* least backoff(n) = min(base * 2^n, cap); backoff never decreases in n
\* and never exceeds cap.
C29_BackoffGatesResubmission ==
    [][/\ PendingResubmitted =>
            LET n == RetryCount(anchor_retry_log, Head(rec.queue).id)
            IN (0 < n /\ n < max_retries) =>
                  /\ outcome'.waited >= retry_delay_base * (2 ^ n)
                      \/ outcome'.waited >= retry_delay_max
       /\ \A n \in 0..(2 * max_retries) :
              /\ _calculate_backoff(n) <= retry_delay_max
              /\ _calculate_backoff(n) <= _calculate_backoff(n + 1)
    ]_vars

\* The step is a handler of a scan that submitted the anchor at the head
\* of its list to the ledger again.
ScanResubmits ==
    /\ rec.pc \in {"pending", "failed"}
    /\ rec.queue # <<>>
    /\ rec'.queue = Tail(rec.queue)
    /\ outcome'.job = "retried" \/ outcome'.error = "Failed to post anchor"

\* The run_anchor_job call of worker p is in flight on the window and
\* the digest of the anchor.
Holds(p, anchor) ==
    /\ wf[p].pc # "idle"
    /\ wf[p].start_time = anchor.start_time
    /\ wf[p].end_time = anchor.end_time
    /\ DigestOf(p) = anchor.digest

\* C28: reconciliation never submits an anchor again while an anchor job
\* in flight holds that anchor (no lookup error having hidden an anchor
\* from a job).
C28_NoRetryOfHeldAnchor ==
    [][(ScanResubmits /\ ~hidden) =>
          \A p \in Workers : ~Holds(p, Head(rec.queue))
    ]_vars

\* C30: no step of a reconciliation scan changes the anchor items.
C30_ScanKeepsItems ==
    [][(rec' # rec \/ scans' # scans) => anchor_items' = anchor_items]_vars

\* A scan has just submitted an anchor again and the ledger took it.
C30_Witness ==
    /\ rec.pc \in {"pending", "failed"}
    /\ outcome.job = "retried"
    /\ outcome.anchor_id = SeedId
    /\ ledger # EmptyBag

\* C31: a reconciliation scan never selects, resubmits or writes to an
\* anchor that is confirmed: every step of a scan leaves every confirmed
\* anchor row as it was, field by field (no lookup error having hidden an
\* anchor from a job).
C31_ScanLeavesConfirmed ==
    [][(rec' # rec /\ ~hidden) =>
          \A a \in anchors : a.status = "confirmed" => a \in anchors'
    ]_vars

\* C32: one post_anchor call makes at most IOTA_RETRY_COUNT submission
\* attempts; no attempt follows one that returned a block id; and a call
\* whose attempts all failed has raised PostingError and has returned no
\* block id and no metadata.
C32_SubmissionAttemptsCapped ==
    LET made == poll.submissions
    IN /\ Len(made) <= IOTA_RETRY_COUNT
       /\ \A k \in 1..(Len(made) - 1) : made[k] # "blockId"
       /\ ( /\ poll.pc # "submitting"
            /\ made # <<>>
            /\ \A k \in 1..Len(made) : made[k] # "blockId" )
          => /\ poll.pc = "raised"
             /\ poll.exception = "PostingError"
             /\ poll.block_id = NoBlock
             /\ poll.metadata = NoMeta
       /\ ( /\ made # <<>>
            /\ \A k \in 1..Len(made) : made[k] # "blockId"
            /\ \/ Len(made) = IOTA_RETRY_COUNT
               \/ ~Retried(made[Len(made)]) )
          => poll.pc = "raised"

\* All IOTA_RETRY_COUNT attempts of a call were refused with an HTTP
\* status error and the call has raised.
C32_Witness ==
    /\ poll.pc = "raised"
    /\ poll.submissions = [k \in 1..IOTA_RETRY_COUNT |-> "PostingError"]
    /\ poll.exception = "PostingError"

C34_PostedAtIffBlockId ==
    \A a \in anchors : (a.posted_at # NoTime) <=> (a.iota_block_id # NoBlock)

\* A scan has just resubmitted the pending anchor, the ledger took the
\* block without a milestone reference, and the row is posted with
\* block id and posted_at.
C34_Witness ==
    /\ outcome.job = "retried"
    /\ \E a \in anchors : /\ a.id = SeedId
                          /\ a.id = outcome.anchor_id
                          /\ a.status = "posted"
                          /\ a.posted_at # NoTime
                          /\ a.iota_block_id # NoBlock

\* C35: in every state every anchor row with confirmed_at set has the
\* status confirmed (no lookup error having hidden an anchor from a job).
C35_ConfirmedAtOnlyConfirmed ==
    ~hidden =>
        \A a \in anchors : a.confirmed_at # NoTime => a.status = "confirmed"

C37_PostedHasBlockId ==
    \A a \in anchors :
       a.status \in {"posted", "confirmed"} => a.iota_block_id # NoBlock

\* C38: no block is left without its anchor: when a run returns after the
\* ledger accepted the block it submitted, an anchor row that records the
\* id of that block is stored, also when the wait for inclusion failed
\* after the submission (no write to the database having failed).
C38_NoOrphanBlock ==
    ( /\ Returned
      /\ outcome.accepted # NoBlock
      /\ outcome.error \notin { "database error", "foreign key violation" } )
    => \E a \in anchors : a.iota_block_id = outcome.accepted

\* C39: within one run_reconciliation call an anchor is submitted to the
\* ledger again at most once: a handler of a scan does not resubmit an
\* anchor that an earlier handler of the same call has resubmitted.
C39_OneResubmissionPerCall ==
    [][ScanResubmits => Head(rec.queue).id \notin rec.resubmitted]_vars

\* C40: the digest commits to the exact sequence of event hashes: two
\* trees built by from_raw_hashes from different lists of hashes, of the
\* same length or not, the hashes being any values (values equal to
\* parent hashes included), have different roots.
C40_RawRootCommitsToSequence ==
    ( merkle.pc = "second" /\ merkle.other # merkle.tree )
    => root_hash(merkle.other) # root_hash(merkle.tree)

====
